---------------------------- MODULE Spec2Model ----------------------------
(***************************************************************************)
(* A model of the DVF-Blockchain node: the Blockchain class                *)
(* (src/blockchain.py) and the request handlers that drive it              *)
(* (src/server.py).                                                        *)
(*                                                                         *)
(* Values.  A block is a record with the five keys of the block dict.  A   *)
(* previous_hash is None, an integer (the genesis block's 1) or a digest;  *)
(* the three are kept apart as <<"None">>, <<"int", n>> and                *)
(* <<"sha256", ...>>.  SHA-256 over the sorted-key JSON text of a block is *)
(* modelled as collision free: the digest of a block is the tagged tuple   *)
(* of its fields in sorted key order.  SHA-256 over the text of two        *)
(* proofs is modelled by a small deterministic digest of the same text;    *)
(* the test on its first four hex characters is the code's.                *)
(***************************************************************************)
EXTENDS Integers, Sequences, FiniteSets, TLC

VARIABLES chain, current_transactions, nodes, promised, last, threads, accepted

vars == <<chain, current_transactions, nodes, promised, last, threads, accepted>>

---------------------------------------------------------------------------
(* Bounds of the model. *)

\* Mining stops once the local chain holds this many blocks.
MaxChain == 3
\* The pending pool takes at most this many submitted transactions.
MaxPool == 1
\* The proof search gives up above this proof (the code's search is unbounded).
MaxProof == 15
\* Peers serve chains of up to this many blocks.
MaxPeerLen == 3
\* The modelled digest of a proof text is a value of 0..DigestRange-1.
DigestRange == 64

---------------------------------------------------------------------------
(* Values of the program. *)

None == <<"None">>
IntVal(n) == <<"int", n>>

\* if v: None, 0 and "" are false, every digest is true.
Truthy(v) == v # None /\ v # IntVal(0)

\* The node's own identifier and the identifiers of the peers' nodes.
node_identifier == "me"
PeerIds == {"p1", "p2"}

\* Proof given to the genesis block.
GenesisProof == 100

\* What time() returns while the node runs; its peers started earlier.
Times == {1}
PeerTime == 0

Transaction(sender, recipient, amount) ==
    [sender |-> sender, recipient |-> recipient, amount |-> amount]

\* The transactions clients submit.
UserTxs == {Transaction("alice", "bob", 5)}

\* An address is the sequence of the pieces of its text: words, ":",
\* "//" and a path that begins with "/".  "http://a:5000/chain" is
\* <<"http", ":", "//", "a", ":", "5000", "/chain">>.
Address(scheme, netloc, path) == <<scheme, ":", "//">> \o netloc \o path

Schemes == {"http", "https"}
Netlocs == { <<"a", ":", "5000">>, <<"b", ":", "5000">>,
             <<"10.0.0.1", ":", "5000">> }
Paths == {<<>>, <<"/chain">>}

\* The addresses clients register: two name the same network location.
Addresses == { Address("http", <<"a", ":", "5000">>, <<>>),
               Address("https", <<"a", ":", "5000">>, <<"/chain">>),
               Address("http", <<"b", ":", "5000">>, <<>>) }

\* Words that can be a scheme: a letter, then letters, digits, "+-.".
SchemeWords == {"http", "https", "a", "b"}

\* Pieces that begin with "/".
Slashed == {"//", "/chain"}

\* The pieces of url up to the first that begins with "/", from the i-th.
RECURSIVE upto_slash(_, _)
upto_slash(url, i) ==
    IF i > Len(url) \/ url[i] \in Slashed THEN <<>>
    ELSE <<url[i]>> \o upto_slash(url, i + 1)

\* urlparse(url): the scheme is what precedes the first ":" when that is
\* a scheme word; the netloc is what follows a "//" at the head of the
\* rest, up to the next "/", and is empty when the rest has no such head.
urlparse(url) ==
    LET has_scheme == Len(url) >= 2 /\ url[2] = ":" /\ url[1] \in SchemeWords
        scheme == IF has_scheme THEN url[1] ELSE ""
        rest == IF has_scheme THEN SubSeq(url, 3, Len(url)) ELSE url
    IN  [scheme |-> scheme,
         netloc |-> IF Len(rest) >= 1 /\ rest[1] = "//"
                    THEN upto_slash(rest, 2) ELSE <<>>]

\* urlparse(address).netloc
netloc(address) == urlparse(address).netloc

---------------------------------------------------------------------------
(* Blockchain.hash *)

\* json.dumps(block, sort_keys=True): the fields in sorted key order.
hash(block) ==
    <<"sha256", block.index, block.previous_hash, block.proof,
      block.timestamp, block.transactions>>

---------------------------------------------------------------------------
(* Blockchain.is_valid_proof *)

\* f"{n}": the decimal digits of n >= 0, most significant first.
RECURSIVE Digits(_)
Digits(n) == IF n < 10 THEN <<n>> ELSE Append(Digits(n \div 10), n % 10)

\* The modelled digest of a text of digits: a value of 0..DigestRange-1.
RECURSIVE Mix(_, _)
Mix(text, h) ==
    IF text = <<>> THEN h
    ELSE Mix(Tail(text), (h * 3 + Head(text) * 31 + 4) % DigestRange)

\* hexdigest(): five hex characters, most significant first.
hexdigest(text) ==
    LET d == Mix(text, 5)
    IN  <<0, 0, 0, d \div 16, d % 16>>

is_valid_proof(last_proof, proof) ==
    LET guess == Digits(last_proof) \o Digits(proof)
        guess_hash == hexdigest(guess)
    IN  SubSeq(guess_hash, 1, 4) = <<0, 0, 0, 0>>

---------------------------------------------------------------------------
(* Blockchain.proof_of_work *)

\* The while loop from a given proof on; MaxProof + 1 when the search is cut.
RECURSIVE pow_search(_, _)
pow_search(last_proof, proof) ==
    IF proof > MaxProof THEN proof
    ELSE IF is_valid_proof(last_proof, proof) THEN proof
    ELSE pow_search(last_proof, proof + 1)

\* A plausible slip: the search starts at 1.
proof_of_work_from_one(last_proof) == pow_search(last_proof, 1)

\* A plausible slip: the loop steps once more after the test succeeds.
proof_of_work_overstep(last_proof) == pow_search(last_proof, 0) + 1

proof_of_work(last_proof) == pow_search(last_proof, 0)

\* The search ends within the model's bound.
pow_terminates(last_proof) == proof_of_work(last_proof) <= MaxProof

---------------------------------------------------------------------------
(* Blockchain.new_block, Blockchain.new_transaction, Blockchain.register_node *)

\* self.chain[-1]
last_block(c) == c[Len(c)]

Block(index, timestamp, transactions, proof, previous_hash) ==
    [index |-> index, timestamp |-> timestamp, transactions |-> transactions,
     proof |-> proof, previous_hash |-> previous_hash]

\* A plausible slip: the pool is not reset after the block is built.
new_block_keeps_pool(c, txs, proof, previous_hash, now) ==
    LET block == Block(Len(c) + 1, now, txs, proof,
                       IF Truthy(previous_hash) THEN previous_hash
                       ELSE hash(c[Len(c)]))
    IN  [chain |-> Append(c, block), current_transactions |-> txs,
         block |-> block]

\* new_block(proof, previous_hash) on a node whose chain is c and whose
\* pool is txs, time() returning now: the node's new chain and pool, and
\* the block returned.
new_block(c, txs, proof, previous_hash, now) ==
    LET block == Block(Len(c) + 1, now, txs, proof,
                       IF Truthy(previous_hash) THEN previous_hash
                       ELSE hash(c[Len(c)]))
    IN  [chain |-> Append(c, block), current_transactions |-> <<>>,
         block |-> block]

\* __init__: the empty chain and pool, then the genesis block.
genesis_chain(now) == new_block(<<>>, <<>>, GenesisProof, IntVal(1), now).chain

\* A plausible slip: the transaction is put at the head of the pool.
new_transaction_first(c, txs, sender, recipient, amount) ==
    [current_transactions |-> <<Transaction(sender, recipient, amount)>> \o txs,
     index |-> last_block(c).index + 1]

\* new_transaction on a node whose chain is c and whose pool is txs: the
\* new pool and the index returned.
new_transaction(c, txs, sender, recipient, amount) ==
    [current_transactions |-> Append(txs, Transaction(sender, recipient, amount)),
     index |-> last_block(c).index + 1]

\* A plausible slip: the address is stored as it was given.
register_node_whole(ns, address) == ns \cup {address}

register_node(ns, address) == ns \cup {netloc(address)}

---------------------------------------------------------------------------
(* mine (src/server.py) *)

\* A plausible slip: the block is linked to the hash of the chain's
\* first block instead of its last.
mine_stale_hash(c, txs, now) ==
    LET lb == last_block(c)
        proof == proof_of_work(lb.proof)
        t == new_transaction(c, txs, "0", node_identifier, 1)
    IN  new_block(c, t.current_transactions, proof, hash(c[1]), now)

\* The handler on a node whose chain is c and whose pool is txs.
mine(c, txs, now) ==
    LET lb == last_block(c)
        proof == proof_of_work(lb.proof)
        t == new_transaction(c, txs, "0", node_identifier, 1)
        previous_hash == hash(lb)
    IN  new_block(c, t.current_transactions, proof, previous_hash, now)

---------------------------------------------------------------------------
(* Blockchain.is_valid_chain *)

\* The while loop from position i on (1-based: current_index = i - 1).
RECURSIVE valid_from(_, _)
valid_from(c, i) ==
    IF i > Len(c) THEN TRUE
    ELSE IF c[i].previous_hash # hash(c[i - 1]) THEN FALSE
    ELSE IF ~is_valid_proof(c[i - 1].proof, c[i].proof) THEN FALSE
    ELSE valid_from(c, i + 1)

\* A plausible slip: the comparison of previous_hash is left out.
RECURSIVE valid_from_no_link(_, _)
valid_from_no_link(c, i) ==
    IF i > Len(c) THEN TRUE
    ELSE IF ~is_valid_proof(c[i - 1].proof, c[i].proof) THEN FALSE
    ELSE valid_from_no_link(c, i + 1)

is_valid_chain_no_link(c) == valid_from_no_link(c, 2)

\* A plausible slip: the loop starts one block too late.
is_valid_chain_skip_first(c) == valid_from(c, 3)

\* is_valid_chain(chain) for a non-empty chain; chain[0] raises IndexError
\* on an empty one, which resolve_conflicts's scan accounts for.
is_valid_chain(c) == valid_from(c, 2)

---------------------------------------------------------------------------
(* Peers: what requests.get(f"http://{node}/chain") may bring back. *)

Response(reachable, status_code, has_length, has_chain, length, c) ==
    [reachable |-> reachable, status_code |-> status_code,
     has_length |-> has_length, has_chain |-> has_chain,
     length |-> length, chain |-> c]

\* requests.get raises (connection refused, timeout, bad URL).
Unreachable == Response(FALSE, 0, FALSE, FALSE, 0, <<>>)
\* A response whose status is not 200.
ServerError == Response(TRUE, 500, FALSE, FALSE, 0, <<>>)
\* 200 responses whose JSON lacks one of the two keys.
NoLength == Response(TRUE, 200, FALSE, TRUE, 0, <<>>)
NoChain == Response(TRUE, 200, TRUE, FALSE, 1, <<>>)

\* The chain of a peer node `who` that ran this program: its genesis block
\* and n - 1 mined blocks, each holding the peer's reward.
RECURSIVE honest_chain(_, _)
honest_chain(who, n) ==
    IF n = 1 THEN genesis_chain(PeerTime)
    ELSE LET c == honest_chain(who, n - 1)
             lb == last_block(c)
         IN  new_block(c, <<Transaction("0", who, 1)>>,
                       proof_of_work(lb.proof), hash(lb), PeerTime).chain

\* The same chain with one field of its last block changed.
TamperedChains(c) ==
    LET n == Len(c)
    IN  { [c EXCEPT ![n].index = n + 1],
          [c EXCEPT ![n].proof = c[n].proof + 1],
          [c EXCEPT ![n].previous_hash = IntVal(1)] }

HonestChains == {honest_chain(who, n) : who \in PeerIds, n \in 1..MaxPeerLen}

PeerChains ==
    {<<>>} \cup HonestChains
    \cup TamperedChains(honest_chain("p2", MaxPeerLen))

\* full_chain (src/server.py) reports length = len(chain); a peer that is
\* not this program may report any length: here, one above every chain.
Responses ==
    {Unreachable, ServerError, NoLength, NoChain}
    \cup {Response(TRUE, 200, TRUE, TRUE, Len(c), c) : c \in PeerChains}
    \cup {Response(TRUE, 200, TRUE, TRUE, MaxPeerLen + 1, c) :
              c \in {honest_chain("p1", n) : n \in 1..MaxPeerLen} \cup {<<>>}}

---------------------------------------------------------------------------
(* Blockchain.resolve_conflicts *)

\* new_chain: None, or a chain.
NoneChain == [some |-> FALSE, chain |-> <<>>]
SomeChain(c) == [some |-> TRUE, chain |-> c]

Raised == [raised |-> TRUE, new_chain |-> NoneChain]

\* The for loop over the responses in the order the set of nodes is
\* iterated, from the i-th on.
RECURSIVE scan(_, _, _, _)
scan(fetched, i, max_length, new_chain) ==
    IF i > Len(fetched) THEN [raised |-> FALSE, new_chain |-> new_chain]
    ELSE LET response == fetched[i] IN
         IF ~response.reachable THEN Raised
         ELSE IF response.status_code # 200
              THEN scan(fetched, i + 1, max_length, new_chain)
         ELSE IF ~response.has_length \/ ~response.has_chain THEN Raised
         ELSE IF response.length > max_length
              THEN IF response.chain = <<>> THEN Raised
                   ELSE IF is_valid_chain(response.chain)
                        THEN scan(fetched, i + 1, response.length,
                                  SomeChain(response.chain))
                        ELSE scan(fetched, i + 1, max_length, new_chain)
         ELSE scan(fetched, i + 1, max_length, new_chain)

\* if new_chain: neither None nor an empty list.
TruthyChain(nc) == nc.some /\ nc.chain # <<>>

\* A plausible slip: new_chain starts as the node's own chain.
resolve_conflicts_own(c, fetched) ==
    LET s == scan(fetched, 1, Len(c), SomeChain(c))
    IN  IF s.raised THEN [replaced |-> "raise", chain |-> c]
        ELSE IF TruthyChain(s.new_chain)
             THEN [replaced |-> "True", chain |-> s.new_chain.chain]
             ELSE [replaced |-> "False", chain |-> c]

\* A plausible slip: the chain is assigned without the test on new_chain.
resolve_conflicts_unconditional(c, fetched) ==
    LET s == scan(fetched, 1, Len(c), NoneChain)
    IN  IF s.raised THEN [replaced |-> "raise", chain |-> c]
        ELSE [replaced |-> IF TruthyChain(s.new_chain) THEN "True" ELSE "False",
              chain |-> s.new_chain.chain]

\* A plausible slip: the chain is replaced and False is returned.
resolve_conflicts_silent(c, fetched) ==
    LET s == scan(fetched, 1, Len(c), NoneChain)
    IN  IF s.raised THEN [replaced |-> "raise", chain |-> c]
        ELSE IF TruthyChain(s.new_chain)
             THEN [replaced |-> "False", chain |-> s.new_chain.chain]
             ELSE [replaced |-> "False", chain |-> c]

\* resolve_conflicts on a node whose chain is c: what it returns ("raise"
\* when an exception leaves it) and the node's chain afterwards.
resolve_conflicts(c, fetched) ==
    LET s == scan(fetched, 1, Len(c), NoneChain)
    IN  IF s.raised THEN [replaced |-> "raise", chain |-> c]
        ELSE IF TruthyChain(s.new_chain)
             THEN [replaced |-> "True", chain |-> s.new_chain.chain]
             ELSE [replaced |-> "False", chain |-> c]

---------------------------------------------------------------------------
(* The node: its state and the requests it serves. *)

\* accepted: the transactions new_transaction has taken, in the order it
\* took them (recorded where a specification says so).
\* last: the request whose response is being returned, "idle" once it is
\* sent.  index: what new_transaction returned, or the new block's index;
\* replaced: what resolve_conflicts returned; old: the chain before a
\* resolve; fetched: the peers' responses in scan order; held: for a new
\* block, the indexes new_transaction had returned for the submitted
\* transactions now in it; proof: the proof a caller gave new_block.
Op(op, index, replaced, old, fetched, held, proof) ==
    [op |-> op, index |-> index, replaced |-> replaced, old |-> old,
     fetched |-> fetched, held |-> held, proof |-> proof]

Idle == Op("idle", 0, "-", <<>>, <<>>, <<>>, 0)

\* threads: the requests the threaded server is handling at the same
\* time, each with its handler's position and local variables; none
\* while requests are served one after the other.
Threads == {"t1", "t2"}
ThreadIdle == [pc |-> "idle"]
NoThreads == [t \in Threads |-> ThreadIdle]

Init ==
    /\ \E now \in Times : chain = genesis_chain(now)
    /\ current_transactions = <<>>
    /\ nodes = {}
    /\ promised = <<>>
    /\ last = Idle
    /\ threads = NoThreads
    /\ accepted = <<>>

\* POST /transactions/new
AddTransaction(tx) ==
    /\ last = Idle
    /\ Len(current_transactions) < MaxPool
    /\ LET r == new_transaction(chain, current_transactions,
                                tx.sender, tx.recipient, tx.amount)
       IN  /\ current_transactions' = r.current_transactions
           /\ promised' = Append(promised, r.index)
           /\ last' = Op("new_transaction", r.index, "-", <<>>, <<>>, <<>>, 0)
    /\ UNCHANGED <<chain, nodes>>

\* GET /mine
Mine(now) ==
    /\ last = Idle
    /\ Len(chain) < MaxChain
    /\ pow_terminates(last_block(chain).proof)
    /\ LET r == mine(chain, current_transactions, now)
       IN  /\ chain' = r.chain
           /\ current_transactions' = r.current_transactions
           /\ promised' = <<>>
           /\ last' = Op("mine", r.block.index, "-", <<>>, <<>>, promised, 0)
    /\ UNCHANGED nodes

\* POST /nodes/register, one address
RegisterNode(address) ==
    /\ last = Idle
    /\ nodes' = register_node(nodes, address)
    /\ last' = Op("register_node", 0, "-", <<>>, <<>>, <<>>, 0)
    /\ UNCHANGED <<chain, current_transactions, promised>>

\* A plausible slip: a replaced chain also empties the pool.
Resolve_clears_pool(fetched) ==
    /\ last = Idle
    /\ LET r == resolve_conflicts(chain, fetched)
       IN  /\ chain' = r.chain
           /\ current_transactions' =
                 IF r.replaced = "True" THEN <<>> ELSE current_transactions
           /\ last' = Op("resolve", 0, r.replaced, chain, fetched, <<>>, 0)
    /\ UNCHANGED <<nodes, promised>>

\* GET /nodes/resolve: every registered node answers with some response,
\* and the set of nodes is iterated in some order.
Resolve(fetched) ==
    /\ last = Idle
    /\ LET r == resolve_conflicts(chain, fetched)
       IN  /\ chain' = r.chain
           /\ last' = Op("resolve", 0, r.replaced, chain, fetched, <<>>, 0)
    /\ UNCHANGED <<current_transactions, nodes, promised>>

\* The handler returns and its response is sent (a 500 when it raised);
\* the node takes the next request.
Respond ==
    /\ last # Idle
    /\ last' = Idle
    /\ UNCHANGED <<chain, current_transactions, nodes, promised>>

\* No request is handled beside the one served, and accepted is not
\* recorded.
Serial == UNCHANGED <<threads, accepted>>

\* Requests served one after the other.
Next ==
    \/ \E tx \in UserTxs : AddTransaction(tx) /\ Serial
    \/ \E now \in Times : Mine(now) /\ Serial
    \/ \E address \in Addresses : RegisterNode(address) /\ Serial
    \/ \E fetched \in [1..Cardinality(nodes) -> Responses] :
           Resolve(fetched) /\ Serial
    \/ Respond /\ Serial

Spec == Init /\ [][Next]_vars

---------------------------------------------------------------------------
(* The Blockchain class called directly: new_transaction, and new_block    *)
(* with previous_hash omitted and any proof that is valid after the last   *)
(* block's.                                                                *)

Proofs == 0..MaxProof

NewBlock(proof, now) ==
    /\ last = Idle
    /\ Len(chain) < MaxChain
    /\ is_valid_proof(last_block(chain).proof, proof)
    /\ LET r == new_block(chain, current_transactions, proof, None, now)
       IN  /\ chain' = r.chain
           /\ current_transactions' = r.current_transactions
           /\ promised' = <<>>
           /\ last' = Op("new_block", r.block.index, "-", <<>>, <<>>,
                         promised, proof)
    /\ UNCHANGED nodes

NextApi ==
    \/ \E tx \in UserTxs : AddTransaction(tx) /\ Serial
    \/ \E proof \in Proofs, now \in Times : NewBlock(proof, now) /\ Serial
    \/ Respond /\ Serial

SpecApi == Init /\ [][NextApi]_vars

---------------------------------------------------------------------------
(* Properties. *)

IsPrefix(a, b) == Len(a) <= Len(b) /\ SubSeq(b, 1, Len(a)) = a

\* A response that brings a chain.
CarriesChain(response) ==
    response.reachable /\ response.status_code = 200 /\ response.has_chain

\* A response whose chain ChainValidator.isValid accepts.
CarriesValidChain(response) ==
    /\ CarriesChain(response)
    /\ response.chain # <<>>
    /\ is_valid_chain(response.chain)

\* The positions, in scan order, of the valid peer chains with more blocks
\* than the chain c.
LongerValid(c, fetched) ==
    {i \in 1..Len(fetched) :
        CarriesValidChain(fetched[i]) /\ Len(fetched[i].chain) > Len(c)}

\* The first scanned among the longest of them.
BestOf(c, fetched) ==
    CHOOSE i \in LongerValid(c, fetched) :
        \A j \in LongerValid(c, fetched) :
            \/ Len(fetched[j].chain) < Len(fetched[i].chain)
            \/ (Len(fetched[j].chain) = Len(fetched[i].chain) /\ i <= j)

\* C1: every block of the local chain but the first has previous_hash
\* equal to the hash of the block before it.
C1_HashLinked ==
    \A i \in 2..Len(chain) : chain[i].previous_hash = hash(chain[i - 1])

\* A block mined on top of a chain adopted from a peer.
C1_Witness ==
    /\ last.op = "mine"
    /\ Len(chain) >= 3
    /\ \E tx \in UserTxs : chain[Len(chain)].transactions[1] = tx
    /\ chain[2].transactions[1].recipient \in PeerIds

\* C2: every pair of adjacent blocks (prev, cur) of the local chain
\* satisfies is_valid_proof(prev.proof, cur.proof).
C2_ProofLinked ==
    \A i \in 2..Len(chain) : is_valid_proof(chain[i - 1].proof, chain[i].proof)

\* A resolve that adopted a peer's longer chain over a chain with a
\* locally mined block.
C2_Witness ==
    /\ last.op = "resolve"
    /\ last.replaced = "True"
    /\ Len(last.old) = 2
    /\ Len(chain) = 3
    /\ chain = honest_chain("p1", 3)

\* C3: a resolve over peers that each bring a chain adopts the longest
\* valid peer chain (the first scanned among equally long ones) and
\* returns True when some valid peer chain
\* has more blocks than the local chain; otherwise it returns False and
\* leaves the local chain as it was.
C3_ConsensusReplacement ==
    (/\ last.op = "resolve"
     /\ \A i \in 1..Len(last.fetched) :
            CarriesChain(last.fetched[i]) /\ last.fetched[i].has_length) =>
        IF LongerValid(last.old, last.fetched) # {}
        THEN /\ last.replaced = "True"
             /\ chain = last.fetched[BestOf(last.old, last.fetched)].chain
        ELSE /\ last.replaced = "False"
             /\ chain = last.old

\* C4: a resolve never replaces the local chain by a chain of exactly as
\* many blocks.
C4_TieRule ==
    (last.op = "resolve" /\ last.replaced = "True") => Len(chain) # Len(last.old)

\* C5: a resolve with no peers returns False and leaves the chain as it was.
C5_NoPeers ==
    (last.op = "resolve" /\ last.fetched = <<>>) =>
        (last.replaced = "False" /\ chain = last.old)

\* A resolve with no registered node on a chain that has mined blocks.
C5_Witness ==
    /\ last.op = "resolve"
    /\ last.fetched = <<>>
    /\ nodes = {}
    /\ Len(chain) >= 2

\* C6: a resolve never aborts: a peer that is unreachable, whose response
\* lacks a field or whose chain is invalid or empty counts as no data, and
\* the outcome is that of resolving over the remaining peers.
C6_PeerFailureIsolation ==
    last.op = "resolve" =>
        LET NoData(response) ==
                \/ ~response.reachable
                \/ response.status_code = 200
                   /\ (~response.has_length \/ ~response.has_chain
                       \/ ~CarriesValidChain(response))
            rest == SelectSeq(last.fetched, LAMBDA response : ~NoData(response))
            r == resolve_conflicts(last.old, rest)
        IN  /\ last.replaced \in {"True", "False"}
            /\ last.replaced = r.replaced
            /\ chain = r.chain

\* C7: every block of the local chain has index equal to its position.
C7_IndexIsPosition ==
    \A i \in 1..Len(chain) : chain[i].index = i

\* C8: the index new_transaction returned for a transaction is the index
\* of the block that holds the transaction once it is mined.
C8_ReturnedIndexHolds ==
    last.op = "mine" =>
        \A k \in 1..Len(last.held) : last.held[k] = chain[Len(chain)].index

\* C9: new_block(p) with previous_hash omitted appends one block with
\* index len + 1, proof p, previous_hash the hash of the old last block
\* and the whole pending pool as its transactions, and empties the pool.
C9_AppendInvariant ==
    [][last'.op = "new_block" =>
        LET n == Len(chain)
        IN  /\ Len(chain') = n + 1
            /\ chain'[n + 1].index = n + 1
            /\ chain'[n + 1].proof = last'.proof
            /\ chain'[n + 1].previous_hash = hash(chain[n])
            /\ chain'[n + 1].transactions = current_transactions
            /\ current_transactions' = <<>>]_vars

\* new_block given a valid proof that is not the least one, with a
\* submitted transaction in the pool.
C9_Witness ==
    /\ last.op = "new_block"
    /\ Len(chain) = 3
    /\ chain[3].transactions # <<>>
    /\ last.proof # proof_of_work(chain[2].proof)

\* C10: in every step other than a resolve that returns True the local
\* chain before the step is a prefix of the local chain after it.
C10_AppendOnly ==
    [][~(last'.op = "resolve" /\ last'.replaced = "True")
          => IsPrefix(chain, chain')]_vars

\* A transaction submitted after a block was mined.
C10_Witness ==
    /\ last.op = "new_transaction"
    /\ Len(chain) >= 2
    /\ chain[Len(chain)].transactions # <<>>

\* C11: the chain __init__ builds has exactly one block, with the fixed
\* proof and the sentinel previous_hash, and is_valid_chain accepts it;
\* the local chain is never empty.
C11_NonEmpty ==
    /\ Len(chain) >= 1
    /\ \A now \in Times :
          LET fresh == genesis_chain(now)
          IN  /\ Len(fresh) = 1
              /\ fresh[1].proof = GenesisProof
              /\ fresh[1].previous_hash = IntVal(1)
              /\ is_valid_chain(fresh)

\* A resolve that cut a chain of three blocks down to a single block.
C11_Witness ==
    /\ last.op = "resolve"
    /\ last.replaced = "True"
    /\ Len(last.old) = 3
    /\ Len(chain) = 1

---------------------------------------------------------------------------
(* is_valid_chain and proof_of_work called on their own: on the chain the  *)
(* class has built, on that chain with one field of one block changed,     *)
(* and on any last proof.                                                  *)

Fields == {"index", "timestamp", "transactions", "proof", "previous_hash"}

\* The values a field of block i of the chain c may be changed to.
OtherValues(c, i, field) ==
    CASE field = "index" -> {c[i].index + 1}
      [] field = "timestamp" -> {c[i].timestamp + 1}
      [] field = "transactions" -> {<<>>, <<Transaction("eve", "eve", 9)>>}
                                      \ {c[i].transactions}
      [] field = "proof" -> (Proofs \cup {GenesisProof}) \ {c[i].proof}
      [] field = "previous_hash" ->
            ({None, IntVal(1)} \cup {hash(c[j]) : j \in 1..Len(c)})
                \ {c[i].previous_hash}

\* The chain c with the field of block i set to value.
Changed(c, i, field, value) ==
    CASE field = "index" -> [c EXCEPT ![i].index = value]
      [] field = "timestamp" -> [c EXCEPT ![i].timestamp = value]
      [] field = "transactions" -> [c EXCEPT ![i].transactions = value]
      [] field = "proof" -> [c EXCEPT ![i].proof = value]
      [] field = "previous_hash" -> [c EXCEPT ![i].previous_hash = value]

\* is_valid_chain on the node's chain with one field of one block changed.
Validate(i, field, value) ==
    /\ last = Idle
    /\ LET candidate == Changed(chain, i, field, value)
       IN  last' = [op |-> "is_valid_chain", original |-> chain,
                    candidate |-> candidate, at |-> i, field |-> field,
                    result |-> is_valid_chain(candidate)]
    /\ UNCHANGED <<chain, current_transactions, nodes, promised>>

\* is_valid_chain on the node's chain as it is.
ValidateOwn ==
    /\ last = Idle
    /\ last' = [op |-> "is_valid_chain", original |-> chain,
                candidate |-> chain, at |-> 0, field |-> "none",
                result |-> is_valid_chain(chain)]
    /\ UNCHANGED <<chain, current_transactions, nodes, promised>>

\* proof_of_work on a last proof for which the search ends.
Solve(last_proof) ==
    /\ last = Idle
    /\ pow_terminates(last_proof)
    /\ last' = [op |-> "proof_of_work", last_proof |-> last_proof,
                proof |-> proof_of_work(last_proof)]
    /\ UNCHANGED <<chain, current_transactions, nodes, promised>>

NextPure ==
    \/ \E tx \in UserTxs : AddTransaction(tx) /\ Serial
    \/ \E now \in Times : Mine(now) /\ Serial
    \/ \E i \in 1..Len(chain), field \in Fields :
          \E value \in OtherValues(chain, i, field) :
             Validate(i, field, value) /\ Serial
    \/ ValidateOwn /\ Serial
    \/ \E last_proof \in Proofs \cup {GenesisProof} : Solve(last_proof) /\ Serial
    \/ Respond /\ Serial

SpecPure == Init /\ [][NextPure]_vars

\* is_valid_chain was given a chain it accepts, of two blocks or more,
\* with the previous_hash or the proof of one block changed.
Corrupted ==
    /\ last.op = "is_valid_chain"
    /\ last.field \in {"previous_hash", "proof"}
    /\ Len(last.original) >= 2
    /\ is_valid_chain(last.original)

\* The change put another valid proof into the last block.
LastProofStillValid ==
    /\ last.field = "proof"
    /\ last.at = Len(last.original)
    /\ is_valid_proof(last.original[last.at - 1].proof,
                      last.candidate[last.at].proof)

\* C12 as claimed: is_valid_chain rejects every chain got from a chain it
\* accepts, of two blocks or more, by changing the previous_hash or the
\* proof of one block.
C12_ValidatorSoundness ==
    Corrupted => last.result = FALSE

\* C12 as amended: it rejects every such chain but those in which the
\* last block's proof was changed to another proof that is valid after
\* the proof of the block before it; those it accepts.
C12_ValidatorSoundnessAmended ==
    Corrupted => (last.result = FALSE <=> ~LastProofStillValid)

\* The proof of a middle block was changed to another proof valid after
\* its predecessor's, and the chain is rejected.
C12_Witness ==
    /\ Corrupted
    /\ last.field = "proof"
    /\ last.at >= 2
    /\ last.at < Len(last.original)
    /\ is_valid_proof(last.original[last.at - 1].proof,
                      last.candidate[last.at].proof)
    /\ last.result = FALSE

\* C13: is_valid_chain accepts a chain exactly when every block but the
\* first has previous_hash equal to the hash of the block before it and a
\* proof valid after that block's proof; a chain of one block is accepted,
\* and the index, timestamp and transactions of the last block and the
\* first block's own previous_hash and proof have no part in it.
C13_ValidatorDefinition ==
    last.op = "is_valid_chain" =>
        LET c == last.candidate
        IN  /\ last.result =
                  (\A i \in 2..Len(c) :
                      /\ c[i].previous_hash = hash(c[i - 1])
                      /\ is_valid_proof(c[i - 1].proof, c[i].proof))
            /\ Len(c) = 1 => last.result
            /\ (/\ last.field \in {"index", "timestamp", "transactions"}
                /\ last.at = Len(c))
                  => last.result = is_valid_chain(last.original)

\* A chain of three blocks whose last block has a wrong index is accepted.
C13_Witness ==
    /\ last.op = "is_valid_chain"
    /\ last.field = "index"
    /\ last.at = 3
    /\ Len(last.candidate) = 3
    /\ last.candidate[3].index # 3
    /\ last.result

\* C14: proof_of_work(last_proof) returns a proof that is valid after
\* last_proof, and no smaller proof from 0 on is.
C14_LeastValidProof ==
    last.op = "proof_of_work" =>
        /\ is_valid_proof(last.last_proof, last.proof)
        /\ \A q \in 0..(last.proof - 1) : ~is_valid_proof(last.last_proof, q)

\* A search that passed over ten proofs and more.
C14_Witness ==
    /\ last.op = "proof_of_work"
    /\ last.proof >= 10

---------------------------------------------------------------------------
(* The threaded server: app.run serves each request in a thread of its own *)
(* and the handlers take no lock, so the statements of two handlers        *)
(* interleave.  A handler's reads and writes of the node's state are the   *)
(* steps; what it computes on its local variables belongs to the step      *)
(* that read them.                                                         *)

\* POST /transactions/new: one append to the pool.
ConcNewTransaction(tx) ==
    /\ Len(current_transactions) < MaxPool
    /\ current_transactions' =
          new_transaction(chain, current_transactions,
                          tx.sender, tx.recipient, tx.amount).current_transactions
    /\ UNCHANGED <<chain, nodes, promised, last, threads, accepted>>

\* POST /nodes/register: one add to the set.
ConcRegisterNode(address) ==
    /\ nodes' = register_node(nodes, address)
    /\ UNCHANGED <<chain, current_transactions, promised, last, threads,
                   accepted>>

\* mine: last_block = blockchain.last_block, and the proof found for it.
MineRead(t) ==
    /\ threads[t].pc = "idle"
    /\ pow_terminates(last_block(chain).proof)
    /\ threads' = [threads EXCEPT ![t] =
                      [pc |-> "mine_reward", last_block |-> last_block(chain),
                       proof |-> proof_of_work(last_block(chain).proof)]]
    /\ UNCHANGED <<chain, current_transactions, nodes, promised, last,
                   accepted>>

\* mine: the reward goes into the pool.
MineReward(t) ==
    /\ threads[t].pc = "mine_reward"
    /\ current_transactions' =
          new_transaction(chain, current_transactions,
                          "0", node_identifier, 1).current_transactions
    /\ threads' = [threads EXCEPT ![t].pc = "mine_forge"]
    /\ UNCHANGED <<chain, nodes, promised, last, accepted>>

\* mine: previous_hash = hash(last_block) of the block read, new_block.
MineForge(t, now) ==
    /\ threads[t].pc = "mine_forge"
    /\ Len(chain) < MaxChain
    /\ LET r == new_block(chain, current_transactions, threads[t].proof,
                          hash(threads[t].last_block), now)
       IN  /\ chain' = r.chain
           /\ current_transactions' = r.current_transactions
    /\ threads' = [threads EXCEPT ![t] = ThreadIdle]
    /\ UNCHANGED <<nodes, promised, last, accepted>>

\* What peers that run this program answer, or fail to.
HonestResponses ==
    {Unreachable, ServerError}
    \cup {Response(TRUE, 200, TRUE, TRUE, Len(c), c) : c \in HonestChains}

\* resolve_conflicts: max_length = len(self.chain), then the loop over
\* the nodes; an exception ends the request.  One resolve request is
\* served at a time, beside the mine requests.
ResolveScan(t, fetched) ==
    /\ threads[t].pc = "idle"
    /\ \A u \in Threads : threads[u].pc # "resolve_assign"
    /\ LET s == scan(fetched, 1, Len(chain), NoneChain)
       IN  threads' = [threads EXCEPT ![t] =
                          IF s.raised THEN ThreadIdle
                          ELSE [pc |-> "resolve_assign",
                                new_chain |-> s.new_chain]]
    /\ UNCHANGED <<chain, current_transactions, nodes, promised, last,
                   accepted>>

\* resolve_conflicts: if new_chain: self.chain = new_chain.
ResolveAssign(t) ==
    /\ threads[t].pc = "resolve_assign"
    /\ chain' = IF TruthyChain(threads[t].new_chain)
                THEN threads[t].new_chain.chain
                ELSE chain
    /\ threads' = [threads EXCEPT ![t] = ThreadIdle]
    /\ UNCHANGED <<current_transactions, nodes, promised, last, accepted>>

\* mine and new_transaction requests at the same time.
NextMining ==
    \/ \E tx \in UserTxs : ConcNewTransaction(tx)
    \/ \E t \in Threads : MineRead(t)
    \/ \E t \in Threads : MineReward(t)
    \/ \E t \in Threads, now \in Times : MineForge(t, now)

SpecMining == Init /\ [][NextMining]_vars

\* mine and resolve requests at the same time, the peers honest.
NextConc ==
    \/ \E address \in Addresses : ConcRegisterNode(address)
    \/ \E t \in Threads : MineRead(t)
    \/ \E t \in Threads : MineReward(t)
    \/ \E t \in Threads, now \in Times : MineForge(t, now)
    \/ \E t \in Threads :
          \E fetched \in [1..Cardinality(nodes) -> HonestResponses] :
             ResolveScan(t, fetched)
    \/ \E t \in Threads : ResolveAssign(t)

SpecConc == Init /\ [][NextConc]_vars

\* C15: with mine and new_transaction requests running at the same time,
\* the node's chain passes is_valid_chain in every state.
C15_ConcurrentMiningKeepsValid ==
    is_valid_chain(chain)

\* C16: with resolve and mine requests running at the same time, the
\* chain that resolve_conflicts assigns has more blocks than the chain it
\* replaces has at that moment.
C16_ReplacementStrictlyLonger ==
    [][\A t \in Threads :
          (/\ threads[t].pc = "resolve_assign"
           /\ threads'[t].pc = "idle"
           /\ TruthyChain(threads[t].new_chain))
             => Len(chain') > Len(chain)]_vars

---------------------------------------------------------------------------
(* register_node called with addresses of every form: with and without a *)
(* scheme, a "//" or a path.                                              *)

RegisterAddresses ==
    {Address(s, n, p) : s \in Schemes, n \in Netlocs, p \in Paths}
    \cup { <<"a", ":", "5000">>,
           <<"10.0.0.1", ":", "5000">>,
           <<"//", "a", ":", "5000", "/chain">>,
           <<"http", ":", "a", ":", "5000">> }

\* blockchain.register_node(address); before: the set of nodes it found.
RegisterAddress(address) ==
    /\ last = Idle
    /\ nodes' = register_node(nodes, address)
    /\ last' = [op |-> "register_address", address |-> address,
                before |-> nodes]
    /\ UNCHANGED <<chain, current_transactions, promised>>

NextRegister ==
    \/ \E address \in RegisterAddresses : RegisterAddress(address) /\ Serial
    \/ Respond /\ Serial

SpecRegister == Init /\ [][NextRegister]_vars

\* C17: once an address is registered, registering it again leaves the
\* set of nodes as it is; and when the address is scheme://netloc[path],
\* the set holds that netloc, and registering the same netloc under any
\* scheme and path adds no member.
C17_RegisterIdempotent ==
    last.op = "register_address" =>
        /\ nodes = last.before \cup {netloc(last.address)}
        /\ register_node(nodes, last.address) = nodes
        /\ \A s \in Schemes, n \in Netlocs, p \in Paths :
              last.address = Address(s, n, p) =>
                 /\ n \in nodes
                 /\ \A s2 \in Schemes, p2 \in Paths :
                       register_node(nodes, Address(s2, n, p2)) = nodes

\* https://a:5000/chain registered after http://a:5000: one member.
C17_Witness ==
    /\ last.op = "register_address"
    /\ last.address = Address("https", <<"a", ":", "5000">>, <<"/chain">>)
    /\ last.before = {<<"a", ":", "5000">>}
    /\ nodes = {<<"a", ":", "5000">>}

---------------------------------------------------------------------------
(* A node without peers: transactions, mining and new_block called with    *)
(* any valid proof, the transactions new_transaction takes recorded in     *)
(* accepted.                                                               *)

\* POST /transactions/new
AcceptTransaction(tx) ==
    /\ AddTransaction(tx)
    /\ accepted' = Append(accepted, tx)
    /\ UNCHANGED threads

\* GET /mine, which hands the reward to new_transaction.
AcceptMine(now) ==
    /\ Mine(now)
    /\ accepted' = Append(accepted, Transaction("0", node_identifier, 1))
    /\ UNCHANGED threads

NextLocal ==
    \/ \E tx \in UserTxs : AcceptTransaction(tx)
    \/ \E now \in Times : AcceptMine(now)
    \/ \E proof \in Proofs, now \in Times : NewBlock(proof, now) /\ Serial
    \/ Respond /\ Serial

SpecLocal == Init /\ [][NextLocal]_vars

\* The transactions of the blocks of c from the i-th on, in chain order.
RECURSIVE transactions_from(_, _)
transactions_from(c, i) ==
    IF i > Len(c) THEN <<>>
    ELSE c[i].transactions \o transactions_from(c, i + 1)

\* C18: no step of new_transaction, mine, register_node and resolve
\* requests makes the chain shorter, and a resolve that returns True
\* leaves it with more blocks than before.
C18_LengthMonotonic ==
    [][/\ Len(chain') >= Len(chain)
       /\ (last'.op = "resolve" /\ last'.replaced = "True")
             => Len(chain') > Len(chain)]_vars

\* C19: with new_transaction, mine and new_block only, the transactions of
\* the blocks in chain order, followed by the pool, are the transactions
\* taken, each once and in the order they were taken.
C19_TransactionConservation ==
    accepted = transactions_from(chain, 1) \o current_transactions

\* Two mined blocks that each hold a submitted transaction before the
\* reward, and a third submitted transaction in the pool.
C19_Witness ==
    /\ Len(chain) = 3
    /\ Len(chain[2].transactions) = 2
    /\ Len(chain[3].transactions) = 2
    /\ Len(current_transactions) = 1
    /\ Len(accepted) = 5

\* C20: a new_transaction request leaves the chain and the nodes as they
\* were, a register request the chain and the pool, and a resolve request
\* the pool and the nodes, whatever it returns.
C20_FrameConditions ==
    [][/\ last'.op = "new_transaction"
             => chain' = chain /\ nodes' = nodes
       /\ last'.op = "register_node"
             => chain' = chain /\ current_transactions' = current_transactions
       /\ last'.op = "resolve"
             => current_transactions' = current_transactions /\ nodes' = nodes
      ]_vars

\* A resolve replaced the chain of a node that has a transaction in its
\* pool and a registered node.
C20_Witness ==
    /\ last.op = "resolve"
    /\ last.replaced = "True"
    /\ chain # last.old
    /\ current_transactions # <<>>
    /\ nodes # {}

=============================================================================
